---- MODULE Spec2Model ----
(***************************************************************************)
(* A model of pptx/text/fonts.py: the FontFiles registry (find,            *)
(* _installed_fonts, _font_directories, _iter_font_files_in), the scoped   *)
(* _Font wrapper and the _Stream binary reader.                            *)
(*                                                                         *)
(* Four specifications share the variables:                                *)
(*   Spec        one caller issuing find calls one after another;          *)
(*   SpecConc    two callers issuing find calls concurrently;              *)
(*   SpecStream  one open _Stream receiving read / read_fields calls;      *)
(*   SpecFont    one open _Font over a font file's bytes, its properties   *)
(*               read one after another.                                   *)
(***************************************************************************)
EXTENDS Integers, Sequences, FiniteSets, TLC

\* ------------------------------------------------------------------ bounds
MaxFiles == 2
MaxCalls == 2
MaxConcFiles == 1
MaxLen == 2

\* ------------------------------------------------- the host: platform, files
\* Values of sys.platform the model draws from.
Platforms == {"darwin", "win32", "linux2", "cygwin"}

\* os.environ.get('HOME'): a home directory, or None ("").
NoHome == ""
Homes == {NoHome, "/Users/u"}

\* The three fixed Mac directories and the two the home directory adds.
SystemDirs == <<"/Library/Fonts", "/Network/Library/Fonts", "/System/Library/Fonts">>
HomeDirs == <<"HOME/Library/Fonts", "HOME/.fonts">>
AllDirs == SystemDirs \o HomeDirs

\* Font descriptors: (family_name, is_bold, is_italic).
ArialRegular == <<"Arial", FALSE, FALSE>>
ArialBold == <<"Arial", TRUE, FALSE>>
NoSuchFamily == <<"NoSuchFamily", FALSE, FALSE>>
Descriptors == {ArialRegular, ArialBold, NoSuchFamily}

\* What a file on disk can be. ext is the file name's extension as written;
\* status says what happens when the file is opened and parsed: "ok" (the
\* three facts are read), "corrupt" (a read or a decoder raises midway),
\* "unreadable" (the builtin open raises).
FileKinds ==
    { [ext |-> ".ttf", status |-> "ok", desc |-> ArialRegular],
      [ext |-> ".OTF", status |-> "ok", desc |-> ArialBold],
      [ext |-> ".ttf", status |-> "corrupt", desc |-> ArialRegular],
      [ext |-> ".otf", status |-> "unreadable", desc |-> ArialRegular],
      [ext |-> ".txt", status |-> "ok", desc |-> ArialRegular] }

\* str.lower() on the extensions the model draws from.
Lower(ext) ==
    CASE ext = ".OTF" -> ".otf"
      [] ext = ".TTF" -> ".ttf"
      [] OTHER -> ext

\* sys.platform.startswith(prefix), on the platforms the model draws from.
StartsWith(p, prefix) ==
    CASE prefix = "darwin" -> p = "darwin"
      [] prefix = "win32" -> p = "win32"
      [] OTHER -> FALSE

\* ------------------------------------------------------------- results
NoPath == <<"", 0, "">>
Return(path) == [kind |-> "return", path |-> path, exc |-> "none"]
Raise(exc) == [kind |-> "raise", path |-> NoPath, exc |-> exc]
NoResult == [kind |-> "none", path |-> NoPath, exc |-> "none"]

\* A Python dict as a function; the empty dict.
EmptyDict == [k \in {} |-> NoPath]
SetItem(d, key, value) ==
    [k \in DOMAIN d \cup {key} |-> IF k = key THEN value ELSE d[k]]


\* ------------------------------------------------------------- _Stream
\* The bytes the model draws file contents from.
Bytes == {0, 1}

\* struct templates, big-endian ('>'), as the sequence of their field codes;
\* the last one is '>4sHHHH', the template of _Font._fields.
Templates == { <<"B">>, <<"H">>, <<"B", "B">>, <<"4s", "H", "H", "H", "H">> }

FieldSize(code) ==
    CASE code = "B" -> 1
      [] code = "H" -> 2
      [] code = "L" -> 4
      [] code = "4s" -> 4

\* struct.calcsize of a template: '>' packs the fields with no padding.
RECURSIVE calcsize(_)
calcsize(tmpl) ==
    IF tmpl = <<>> THEN 0 ELSE FieldSize(Head(tmpl)) + calcsize(Tail(tmpl))

Min(a, b) == IF a < b THEN a ELSE b

\* file.read(n) at position pos: the bytes from pos on, n of them or as many
\* as the file still has.
FileRead(bytes, pos, n) == SubSeq(bytes, pos + 1, Min(pos + n, Len(bytes)))

\* An unsigned big-endian integer.
RECURSIVE BigEndian(_)
BigEndian(bs) ==
    IF bs = <<>> THEN 0
    ELSE 256 * BigEndian(SubSeq(bs, 1, Len(bs) - 1)) + bs[Len(bs)]

\* One decoded field: a character array keeps its bytes, an integer code
\* gives a number.
Field(code, bs) ==
    IF code = "4s" THEN [s |-> bs, n |-> 0] ELSE [s |-> <<>>, n |-> BigEndian(bs)]

RECURSIVE Unpack(_, _)
Unpack(tmpl, bufr) ==
    IF tmpl = <<>> THEN <<>>
    ELSE <<Field(Head(tmpl), SubSeq(bufr, 1, FieldSize(Head(tmpl))))>>
         \o Unpack(Tail(tmpl), SubSeq(bufr, FieldSize(Head(tmpl)) + 1, Len(bufr)))

Bytes_(bs) == [kind |-> "bytes", bytes |-> bs, fields |-> <<>>, exc |-> "none"]
Fields_(fs) == [kind |-> "fields", bytes |-> <<>>, fields |-> fs, exc |-> "none"]
Error_(exc) == [kind |-> "raise", bytes |-> <<>>, fields |-> <<>>, exc |-> exc]

\* struct.unpack_from(template, bufr): struct.error on a buffer shorter than
\* the template.
unpack_from(tmpl, bufr) ==
    IF Len(bufr) < calcsize(tmpl) THEN Error_("struct.error")
    ELSE Fields_(Unpack(tmpl, bufr))

\* A faulty variant of Seek: the read starts where the last one ended.
NoSeek(pos, offset) == pos

\* file.seek(offset): the position a read starts from.

Seek(pos, offset) == offset

\* _Stream.read(offset, length) on a file at position pos.
read(bytes, pos, offset, length) ==
    Bytes_(FileRead(bytes, Seek(pos, offset), length))

\* _Stream.read_fields(template, offset) on a file at position pos.
read_fields(bytes, pos, tmpl, offset) ==
    unpack_from(tmpl, FileRead(bytes, Seek(pos, offset), calcsize(tmpl)))

\* A read call with its result; no call yet.
NoRead == [op |-> "none", offset |-> 0, length |-> 0, tmpl |-> <<>>,
           result |-> Error_("none")]

\* The outcome of an operation on a font: the exception raised ("none" when
\* it returned), and the value returned: a text (a sequence of character
\* codes), a flag, or the table records yielded.
Outcome(op, exc, text, flag, records) ==
    [op |-> op, exc |-> exc, text |-> text, flag |-> flag, records |-> records]
NoOp == Outcome("none", "none", <<>>, FALSE, <<>>)

\* A lazyproperty not computed yet.
NoFields == Error_("none")
NoTables == [isNone |-> TRUE, map |-> <<>>]

VARIABLES
    platform,     \* sys.platform
    home,         \* os.environ.get('HOME')
    tree,         \* the files on disk: a sequence of [dir, ext, status, desc]
    _font_files,  \* FontFiles._font_files: [isNone, map]
    callers,      \* the threads that call find
    pc,           \* each caller's position
    args,         \* each caller's (family_name, is_bold, is_italic)
    dirs,         \* each caller's directory list in _installed_fonts
    d_idx,        \* each caller's index into dirs
    f_idx,        \* each caller's count of candidates done in dirs[d_idx]
    fonts,        \* each caller's local dict in _installed_fonts
    res,          \* each caller's last result of find
    open_files,   \* open file handles: a set of <<caller, path>>
    scan_count,   \* how many times _installed_fonts was entered
    calls,        \* how many find calls were made
    returned,     \* <<descriptor, result>> of every find that reached line 32
    opened,       \* each caller's latest scan: the files _Font.open was called on
    yields,       \* each caller's latest scan: the pairs yielded, in order
    data,         \* SpecStream: the bytes of the file the stream wraps
    cursor,       \* SpecStream: the file object's position
    closed,       \* SpecStream: whether the file object is closed
    last_read,    \* SpecStream: the latest read call and its result
    noted_read,   \* SpecStream: an earlier read call and its result
    _fields,      \* SpecFont: _Font._fields once computed (lazyproperty)
    _tables,      \* SpecFont: _Font._tables once computed: [isNone, map]
    last_op,      \* SpecFont: the latest operation on the font and its outcome
    reads,        \* SpecFont: the stream reads the latest operation made
    constructed,  \* SpecFont: the tags a decoder was constructed for, in order
    requested,    \* SpecFont: the tags looked up in _tables so far
    props_read    \* SpecFont: how many operations the font has served

regVars == <<platform, home, tree, _font_files, callers, pc, args, dirs, d_idx,
             f_idx, fonts, res, open_files, scan_count, calls, returned,
             opened, yields>>
streamVars == <<data, cursor, closed, last_read, noted_read>>
fontVars == <<_fields, _tables, last_op, reads, constructed, requested, props_read>>
vars == <<regVars, streamVars, fontVars>>

Threads == {1, 2}

\* ------------------------------------------------------------ FontFiles
\* The files on disk the model draws from: at most n files, listed in walk
\* order, the files of one directory together.
Trees(n) ==
    UNION { { [i \in 1..k |-> [dir |-> AllDirs[dd[i]], ext |-> kk[i].ext,
                                status |-> kk[i].status, desc |-> kk[i].desc]] :
                dd \in { f \in [1..k -> 1..Len(AllDirs)] :
                           \A i \in 1..k : \A j \in i..k : f[i] <= f[j] },
                kk \in [1..k -> FileKinds] } : k \in 0..n }

\* os.path.abspath(os.path.join(root, filename)) of the i-th file on disk.
Path(i) == <<tree[i].dir, i, tree[i].ext>>

\* FontFiles._os_x_font_directories
_os_x_font_directories(h) ==
    IF h # NoHome THEN SystemDirs \o HomeDirs ELSE SystemDirs

\* FontFiles._windows_font_directories
_windows_font_directories == [exc |-> "NotImplementedError", dirs |-> <<>>]

\* A faulty variant of _font_directories: an unknown platform gets an empty list.
_font_directories_empty(p, h) ==
    IF StartsWith(p, "darwin")
    THEN [exc |-> "none", dirs |-> _os_x_font_directories(h)]
    ELSE [exc |-> "none", dirs |-> <<>>]

\* FontFiles._font_directories: the directory list, or the exception raised.
_font_directories(p, h) ==
    IF StartsWith(p, "darwin")
    THEN [exc |-> "none", dirs |-> _os_x_font_directories(h)]
    ELSE IF StartsWith(p, "win32")
    THEN _windows_font_directories
    ELSE [exc |-> "OSError", dirs |-> <<>>]

\* Line 70: whether a file name's extension passes the filter.
IsFontExt(ext) == Lower(ext) \in {".otf", ".ttf"}

\* The files os.walk(directory) lists that pass the extension filter, in walk
\* order: the files _iter_font_files_in opens.
RECURSIVE Candidates(_, _)
Candidates(directory, i) ==
    IF i > Len(tree) THEN <<>>
    ELSE IF tree[i].dir = directory /\ IsFontExt(tree[i].ext)
         THEN <<i>> \o Candidates(directory, i + 1)
         ELSE Candidates(directory, i + 1)

_iter_font_files_in(directory) == Candidates(directory, 1)

\* A faulty variant of NeedsBuild: the None test is left out.
AlwaysBuild(ff) == TRUE

\* Line 30: whether find builds the registry.

NeedsBuild(ff) == ff.isNone

\* A faulty variant of GetItem: a miss falls back to some installed font.
GetItemOrFirst(map, key) ==
    IF key \in DOMAIN map THEN Return(map[key])
    ELSE IF DOMAIN map # {} THEN Return(map[CHOOSE k \in DOMAIN map : TRUE])
    ELSE Raise("KeyError")

\* Line 32: cls._font_files[(family_name, is_bold, is_italic)].
GetItem(map, key) ==
    IF key \in DOMAIN map THEN Return(map[key]) ELSE Raise("KeyError")

\* A faulty variant of StoreFont: the first path of a descriptor is kept.
KeepFirst(f, key, path) == IF key \in DOMAIN f THEN f ELSE SetItem(f, key, path)

\* Line 44: fonts[key] = path.

StoreFont(f, key, path) == SetItem(f, key, path)

\* _Stream.open -> open(path, 'rb'): the handle joins the open ones.
OpenHandle(handles, h) == handles \cup {h}

\* A faulty variant of _Font_exit: the file is closed on a normal exit only.
LeakOnError(handles, h, exc) == IF exc THEN handles ELSE handles \ {h}

\* A faulty variant of _Font_exit: the file is closed on an exception only,
\* and stays open when the generator resumes after a yield.
KeepOpenAfterYield(handles, h, exc) == IF exc THEN handles \ {h} ELSE handles

\* _Font.__exit__ -> _Stream.close -> file.close(); exc says whether the
\* with-body raised.

_Font_exit(handles, h, exc) == handles \ {h}

\* (f.family_name, f.is_bold, f.is_italic) of the i-th file: the descriptor,
\* or the failure of a header read or table decoder. fonts.py declares the
\* table decoders without a body (_TableFactory and _NameTable.family_name
\* raise NotImplementedError) and only uses _Font.is_bold and _Font.is_italic
\* (line 74), so the outcome is the designed one: a well-formed file gives its
\* descriptor, any other file fails.
Descriptor(i) ==
    IF tree[i].status = "ok"
    THEN [exc |-> "none", desc |-> tree[i].desc]
    ELSE [exc |-> "ParseError", desc |-> tree[i].desc]

\* ------------------------------------------------------------- actions
\* The stream variables take no part in the registry's specifications.
FontIdle ==
    /\ _fields = NoFields
    /\ _tables = NoTables
    /\ last_op = NoOp
    /\ reads = <<>>
    /\ constructed = <<>>
    /\ requested = {}
    /\ props_read = 0

StreamIdle ==
    /\ FontIdle
    /\ data = <<>>
    /\ cursor = 0
    /\ closed = FALSE
    /\ last_read = NoRead
    /\ noted_read = NoRead

RegInit(who, n) ==
    /\ platform \in Platforms
    /\ home \in Homes
    /\ tree \in Trees(n)
    /\ (~StartsWith(platform, "darwin") => tree = <<>>)
    /\ _font_files = [isNone |-> TRUE, map |-> EmptyDict]
    /\ callers = who
    /\ pc = [t \in Threads |-> "idle"]
    /\ args = [t \in Threads |-> ArialRegular]
    /\ dirs = [t \in Threads |-> <<>>]
    /\ d_idx = [t \in Threads |-> 0]
    /\ f_idx = [t \in Threads |-> 0]
    /\ fonts = [t \in Threads |-> EmptyDict]
    /\ res = [t \in Threads |-> NoResult]
    /\ open_files = {}
    /\ scan_count = 0
    /\ calls = 0
    /\ returned = {}
    /\ opened = [t \in Threads |-> {}]
    /\ yields = [t \in Threads |-> <<>>]
    /\ StreamIdle

Init == RegInit({1}, MaxFiles)

ConcInit == RegInit(Threads, MaxConcFiles)

\* A find call leaves with a result; the caller's locals die with the frame.
Leave(t, result) ==
    /\ pc' = [pc EXCEPT ![t] = "idle"]
    /\ res' = [res EXCEPT ![t] = result]
    /\ dirs' = [dirs EXCEPT ![t] = <<>>]
    /\ d_idx' = [d_idx EXCEPT ![t] = 0]
    /\ f_idx' = [f_idx EXCEPT ![t] = 0]
    /\ fonts' = [fonts EXCEPT ![t] = EmptyDict]

\* find, lines 25-30: caller t calls find(*key) and tests the registry.
Find(t, key) ==
    /\ UNCHANGED <<opened, yields>>
    /\ pc[t] = "idle"
    /\ calls < MaxCalls
    /\ calls' = calls + 1
    /\ args' = [args EXCEPT ![t] = key]
    /\ res' = [res EXCEPT ![t] = NoResult]
    /\ pc' = [pc EXCEPT ![t] = IF NeedsBuild(_font_files) THEN "build" ELSE "lookup"]
    /\ UNCHANGED <<platform, home, tree, _font_files, callers, dirs, d_idx, f_idx,
                   fonts, open_files, scan_count, returned, streamVars, fontVars>>

\* _installed_fonts, lines 41-42: a fresh dict, then the directory list,
\* whose exception leaves find.
InstalledFonts(t) ==
    /\ pc[t] = "build"
    /\ scan_count' = scan_count + 1
    /\ opened' = [opened EXCEPT ![t] = {}]
    /\ yields' = [yields EXCEPT ![t] = <<>>]
    /\ LET fd == _font_directories(platform, home) IN
         IF fd.exc # "none"
         THEN Leave(t, Raise(fd.exc))
         ELSE /\ pc' = [pc EXCEPT ![t] = "scan"]
              /\ dirs' = [dirs EXCEPT ![t] = fd.dirs]
              /\ d_idx' = [d_idx EXCEPT ![t] = 1]
              /\ f_idx' = [f_idx EXCEPT ![t] = 0]
              /\ fonts' = [fonts EXCEPT ![t] = EmptyDict]
              /\ res' = res
    /\ UNCHANGED <<platform, home, tree, _font_files, callers, args, open_files,
                   calls, returned, streamVars, fontVars>>

\* The candidates of the directory caller t is scanning.
Todo(t) ==
    IF d_idx[t] \in 1..Len(dirs[t]) THEN _iter_font_files_in(dirs[t][d_idx[t]])
    ELSE <<>>

\* _iter_font_files_in, lines 72-73: _Font.open(path) on the next candidate;
\* the builtin open may raise, and then no handle was opened.
OpenFont(t) ==
    /\ pc[t] = "scan"
    /\ d_idx[t] \in 1..Len(dirs[t])
    /\ f_idx[t] < Len(Todo(t))
    /\ opened' = [opened EXCEPT ![t] = @ \cup {Todo(t)[f_idx[t] + 1]}]
    /\ yields' = yields
    /\ LET i == Todo(t)[f_idx[t] + 1] IN
         IF tree[i].status = "unreadable"
         THEN /\ Leave(t, Raise("IOError"))
              /\ open_files' = open_files
         ELSE /\ open_files' = OpenHandle(open_files, <<t, Path(i)>>)
              /\ pc' = [pc EXCEPT ![t] = "parsing"]
              /\ UNCHANGED <<res, dirs, d_idx, f_idx, fonts>>
    /\ UNCHANGED <<platform, home, tree, _font_files, callers, args, scan_count,
                   calls, returned, streamVars, fontVars>>

\* A faulty variant of Parse: the dict is filled in place, so a failing file
\* leaves the pairs read so far behind as the registry.
ParseKeepingPartial(t) ==
    /\ pc[t] = "parsing"
    /\ opened' = opened
    /\ LET i == Todo(t)[f_idx[t] + 1]
           r == Descriptor(i) IN
         IF r.exc # "none"
         THEN /\ open_files' = _Font_exit(open_files, <<t, Path(i)>>, TRUE)
              /\ _font_files' = [isNone |-> FALSE, map |-> fonts[t]]
              /\ Leave(t, Raise(r.exc))
              /\ yields' = yields
         ELSE /\ fonts' = [fonts EXCEPT ![t] = StoreFont(fonts[t], r.desc, Path(i))]
              /\ yields' = [yields EXCEPT ![t] = Append(@, <<r.desc, Path(i)>>)]
              /\ pc' = [pc EXCEPT ![t] = "yielded"]
              /\ UNCHANGED <<open_files, res, dirs, d_idx, f_idx, _font_files>>
    /\ UNCHANGED <<platform, home, tree, callers, args, scan_count,
                   calls, returned, streamVars, fontVars>>

\* Line 74 and line 44: the three facts are read; the pair is yielded with
\* the file still open and the consumer stores it. A failure leaves the with
\* block through __exit__ and propagates out of find.
Parse(t) ==
    /\ pc[t] = "parsing"
    /\ opened' = opened
    /\ LET i == Todo(t)[f_idx[t] + 1]
           r == Descriptor(i) IN
         IF r.exc # "none"
         THEN /\ open_files' = _Font_exit(open_files, <<t, Path(i)>>, TRUE)
              /\ Leave(t, Raise(r.exc))
              /\ yields' = yields
         ELSE /\ fonts' = [fonts EXCEPT ![t] = StoreFont(fonts[t], r.desc, Path(i))]
              /\ yields' = [yields EXCEPT ![t] = Append(@, <<r.desc, Path(i)>>)]
              /\ pc' = [pc EXCEPT ![t] = "yielded"]
              /\ UNCHANGED <<open_files, res, dirs, d_idx, f_idx>>
    /\ UNCHANGED <<platform, home, tree, _font_files, callers, args, scan_count,
                   calls, returned, streamVars, fontVars>>

\* A faulty variant of Resume: the walk does not move on to the next file.
ResumeSameFile(t) ==
    /\ UNCHANGED <<opened, yields>>
    /\ pc[t] = "yielded"
    /\ LET i == Todo(t)[f_idx[t] + 1] IN
         open_files' = _Font_exit(open_files, <<t, Path(i)>>, FALSE)
    /\ pc' = [pc EXCEPT ![t] = "scan"]
    /\ UNCHANGED <<platform, home, tree, _font_files, callers, args, dirs, d_idx,
                   f_idx, fonts, res, scan_count, calls, returned, streamVars, fontVars>>

\* The consumer asks for the next pair: the generator resumes after the
\* yield, leaves the with block through __exit__ and goes on to the next file.
Resume(t) ==
    /\ UNCHANGED <<opened, yields>>
    /\ pc[t] = "yielded"
    /\ LET i == Todo(t)[f_idx[t] + 1] IN
         open_files' = _Font_exit(open_files, <<t, Path(i)>>, FALSE)
    /\ f_idx' = [f_idx EXCEPT ![t] = f_idx[t] + 1]
    /\ pc' = [pc EXCEPT ![t] = "scan"]
    /\ UNCHANGED <<platform, home, tree, _font_files, callers, args, dirs, d_idx,
                   fonts, res, scan_count, calls, returned, streamVars, fontVars>>

\* Line 42: the walk of one directory is exhausted; on to the next one.
NextDirectory(t) ==
    /\ UNCHANGED <<opened, yields>>
    /\ pc[t] = "scan"
    /\ d_idx[t] < Len(dirs[t])
    /\ f_idx[t] = Len(Todo(t))
    /\ d_idx' = [d_idx EXCEPT ![t] = d_idx[t] + 1]
    /\ f_idx' = [f_idx EXCEPT ![t] = 0]
    /\ UNCHANGED <<platform, home, tree, _font_files, callers, pc, args, dirs,
                   fonts, res, open_files, scan_count, calls, returned, streamVars, fontVars>>

\* Lines 45 and 31: _installed_fonts returns its dict and find stores it.
Built(t) ==
    /\ UNCHANGED <<opened, yields>>
    /\ pc[t] = "scan"
    /\ d_idx[t] >= Len(dirs[t])
    /\ f_idx[t] = Len(Todo(t))
    /\ _font_files' = [isNone |-> FALSE, map |-> fonts[t]]
    /\ pc' = [pc EXCEPT ![t] = "lookup"]
    /\ UNCHANGED <<platform, home, tree, callers, args, dirs, d_idx, f_idx, fonts,
                   res, open_files, scan_count, calls, returned, streamVars, fontVars>>

\* A faulty variant of Lookup: a miss is remembered in the dict.
LookupCachingMiss(t) ==
    /\ UNCHANGED <<opened, yields>>
    /\ pc[t] = "lookup"
    /\ LET r == GetItem(_font_files.map, args[t]) IN
         /\ Leave(t, r)
         /\ returned' = returned \cup {<<args[t], r>>}
         /\ _font_files' =
              IF r.kind = "raise"
              THEN [_font_files EXCEPT !.map = SetItem(@, args[t], NoPath)]
              ELSE _font_files
    /\ UNCHANGED <<platform, home, tree, callers, args, open_files,
                   scan_count, calls, streamVars, fontVars>>

\* Line 32: the subscript on the stored dict; a miss raises KeyError.
Lookup(t) ==
    /\ UNCHANGED <<opened, yields>>
    /\ pc[t] = "lookup"
    /\ LET r == GetItem(_font_files.map, args[t]) IN
         /\ Leave(t, r)
         /\ returned' = returned \cup {<<args[t], r>>}
    /\ UNCHANGED <<platform, home, tree, _font_files, callers, args, open_files,
                   scan_count, calls, streamVars, fontVars>>

Next ==
    \/ \E t \in callers : \E key \in Descriptors : Find(t, key)
    \/ \E t \in callers : InstalledFonts(t)
    \/ \E t \in callers : OpenFont(t)
    \/ \E t \in callers : Parse(t)
    \/ \E t \in callers : Resume(t)
    \/ \E t \in callers : NextDirectory(t)
    \/ \E t \in callers : Built(t)
    \/ \E t \in callers : Lookup(t)

Spec == Init /\ [][Next]_vars

SpecConc == ConcInit /\ [][Next]_vars

\* ------------------------------------------------------------- properties
\* The callers inside the scan of _installed_fonts.
InScan == {t \in callers : pc[t] \in {"scan", "parsing", "yielded"}}

\* The candidates of every directory of the platform's list, in scan order.
RECURSIVE ScanOrderFrom(_, _)
ScanOrderFrom(ds, k) ==
    IF k > Len(ds) THEN <<>>
    ELSE _iter_font_files_in(ds[k]) \o ScanOrderFrom(ds, k + 1)

ScanOrder == ScanOrderFrom(_font_directories(platform, home).dirs, 1)

\* The dict a build must produce: one path per descriptor, the path of the
\* last candidate in scan order that carries the descriptor.
LastWins ==
    [d \in {tree[ScanOrder[k]].desc : k \in 1..Len(ScanOrder)} |->
        LET last == CHOOSE k \in 1..Len(ScanOrder) :
                      /\ tree[ScanOrder[k]].desc = d
                      /\ \A m \in (k + 1)..Len(ScanOrder) : tree[ScanOrder[m]].desc # d
        IN Path(ScanOrder[last])]

\* C1: once a find call has completed a registry build, no later find call
\* scans again (the scan count stays at 1), and find calls with the same
\* arguments return the identical result.
C1_BuildOnce ==
    ~_font_files.isNone =>
        /\ scan_count = 1
        /\ \A p \in returned : \A q \in returned : p[1] = q[1] => p[2] = q[2]

\* C1 witness: two find calls have completed after one build, the second a hit.
C1_Witness ==
    /\ ~_font_files.isNone
    /\ calls >= 2
    /\ pc[1] = "idle"
    /\ res[1].kind = "return"

\* C2: with concurrent first-time callers, at most one caller ever runs the
\* scan of _installed_fonts; no two callers are inside it together.
C2_AtMostOneScan == Cardinality(InScan) <= 1

\* C3: a font file that fails to open or parse is skipped: no scan ends by
\* raising that file's error to the caller.
C3_BadFileSkipped ==
    \A t \in callers : res[t].exc \notin {"ParseError", "IOError"}

\* C4: after a build the registry holds exactly one path per descriptor
\* yielded by the scans, the path of the last pair carrying that descriptor
\* in directory-list order and, within a directory, in walk order.
C4_LastWriteWins == ~_font_files.isNone => _font_files.map = LastWins

\* C4 witness: a registry built from two files that share a descriptor.
C4_Witness ==
    /\ ~_font_files.isNone
    /\ Len(ScanOrder) >= 2
    /\ tree[ScanOrder[1]].desc = tree[ScanOrder[2]].desc
    /\ _font_files.map[tree[ScanOrder[2]].desc] = Path(ScanOrder[2])

\* C5: a font file handle is open only while its caller is inside the with
\* block; once the block is left, by a normal exit or by an exception, the
\* handle is closed, so no handle stays open after a scan finishes or fails.
C5_HandleReleased ==
    /\ \A h \in open_files : pc[h[1]] \in {"parsing", "yielded"}
    /\ \A t \in callers : pc[t] \in {"idle", "lookup"} =>
           ~\E h \in open_files : h[1] = t

\* C5 witness: a scan passed one well-formed file and failed on the parse of
\* the next one, and no handle is left open.
C5_Witness ==
    /\ pc[1] = "idle"
    /\ res[1].exc = "ParseError"
    /\ Len(ScanOrder) = 2
    /\ tree[ScanOrder[1]].status = "ok"
    /\ open_files = {}

\* C6: find on a descriptor with no entry raises the not-found error
\* (KeyError), never a path; on a descriptor with an entry it returns the
\* stored path.
C6_FindResult ==
    \A p \in returned :
        /\ p[1] \in DOMAIN _font_files.map => p[2] = Return(_font_files.map[p[1]])
        /\ p[1] \notin DOMAIN _font_files.map => p[2] = Raise("KeyError")

\* C6 witness: one find call was a hit and another a miss.
C6_Witness ==
    \E p \in returned : \E q \in returned :
        /\ p[2].kind = "return"
        /\ q[2] = Raise("KeyError")
        /\ DOMAIN _font_files.map # {}

\* C7: on a platform with no known font-directory convention find fails
\* with the unsupported-platform error (OSError); a directory list that is
\* returned is never empty or guessed: it is the Mac list, on a Mac.
C7_UnsupportedPlatform ==
    /\ \A t \in callers :
          (/\ pc[t] = "idle"
           /\ res[t] # NoResult
           /\ ~StartsWith(platform, "darwin")
           /\ ~StartsWith(platform, "win32")) => res[t] = Raise("OSError")
    /\ \A t \in InScan :
          /\ dirs[t] # <<>>
          /\ StartsWith(platform, "darwin")
          /\ dirs[t] = _os_x_font_directories(home)

\* C7 witness: a find call on Linux has failed with OSError.
C7_Witness ==
    /\ platform = "linux2"
    /\ pc[1] = "idle"
    /\ res[1] = Raise("OSError")
    /\ _font_files.isNone

\* C8: once built, no step changes the registry.
C8_ReadOnlyOnceBuilt == [][~_font_files.isNone => _font_files' = _font_files]_vars

\* C8 witness: after the build a hit and then a miss were answered.
C8_Witness ==
    /\ ~_font_files.isNone
    /\ DOMAIN _font_files.map # {}
    /\ pc[1] = "idle"
    /\ res[1] = Raise("KeyError")
    /\ \E p \in returned : p[2].kind = "return"

\* ------------------------------------------------------ _Stream actions
\* The registry variables take no part in the stream's specification.
StreamInit ==
    /\ FontIdle
    /\ data \in UNION {[1..n -> Bytes] : n \in 0..MaxLen}
    /\ cursor = 0
    /\ closed = FALSE
    /\ last_read = NoRead
    /\ noted_read = NoRead
    /\ platform = "darwin"
    /\ home = NoHome
    /\ tree = <<>>
    /\ _font_files = [isNone |-> TRUE, map |-> EmptyDict]
    /\ callers = {}
    /\ pc = [t \in Threads |-> "idle"]
    /\ args = [t \in Threads |-> ArialRegular]
    /\ dirs = [t \in Threads |-> <<>>]
    /\ d_idx = [t \in Threads |-> 0]
    /\ f_idx = [t \in Threads |-> 0]
    /\ fonts = [t \in Threads |-> EmptyDict]
    /\ res = [t \in Threads |-> NoResult]
    /\ open_files = {}
    /\ scan_count = 0
    /\ calls = 0
    /\ returned = {}
    /\ opened = [t \in Threads |-> {}]
    /\ yields = [t \in Threads |-> <<>>]

\* _Stream.read, lines 203-204; a closed file raises ValueError on seek.
StreamRead(offset, length) ==
    /\ LET r == IF closed THEN Error_("ValueError")
                ELSE read(data, cursor, offset, length) IN
         /\ last_read' = [op |-> "read", offset |-> offset, length |-> length,
                          tmpl |-> <<>>, result |-> r]
         /\ cursor' = IF closed THEN cursor
                      ELSE Seek(cursor, offset) + Len(r.bytes)
    /\ UNCHANGED <<data, closed, noted_read, regVars, fontVars>>

\* _Stream.read_fields, lines 211-213.
StreamReadFields(tmpl, offset) ==
    /\ LET r == IF closed THEN Error_("ValueError")
                ELSE read_fields(data, cursor, tmpl, offset) IN
         /\ last_read' = [op |-> "read_fields", offset |-> offset,
                          length |-> calcsize(tmpl), tmpl |-> tmpl, result |-> r]
         /\ cursor' = IF closed THEN cursor
                      ELSE Seek(cursor, offset)
                           + Len(FileRead(data, Seek(cursor, offset), calcsize(tmpl)))
    /\ UNCHANGED <<data, closed, noted_read, regVars, fontVars>>

\* _Stream.close, line 197.
StreamClose ==
    /\ ~closed
    /\ closed' = TRUE
    /\ UNCHANGED <<data, cursor, last_read, noted_read, regVars, fontVars>>

\* The caller keeps the latest read and its result to compare later reads with.
Note ==
    /\ last_read.op # "none"
    /\ noted_read' = last_read
    /\ UNCHANGED <<data, cursor, closed, last_read, regVars, fontVars>>

StreamNext ==
    \/ \E offset \in 0..MaxLen : \E length \in 0..(MaxLen + 1) : StreamRead(offset, length)
    \/ \E tmpl \in Templates : \E offset \in 0..MaxLen : StreamReadFields(tmpl, offset)
    \/ StreamClose
    \/ Note

SpecStream == StreamInit /\ [][StreamNext]_vars

\* Whether two read calls are the same call: same operation, same arguments.
SameCall(a, b) ==
    /\ a.op = b.op
    /\ a.offset = b.offset
    /\ a.length = b.length
    /\ a.tmpl = b.tmpl

\* C9: a read or read_fields call whose byte range extends past the end of
\* the file fails with an error; it returns no short or partial result.
C9_ReadPastEndFails ==
    (last_read.op # "none" /\ last_read.offset + last_read.length > Len(data))
        => last_read.result.kind = "raise"

\* C10: on an open file the result of a read depends only on the file
\* contents and the call's arguments: the same call made earlier and made
\* again after any other reads returns the same result, the bytes (or the
\* fields decoded from the bytes) at its absolute offset.
C10_ReadsIndependent ==
    /\ (/\ SameCall(last_read, noted_read)
        /\ last_read.result.exc # "ValueError"
        /\ noted_read.result.exc # "ValueError")
           => last_read.result = noted_read.result
    /\ (last_read.op = "read" /\ last_read.result.kind = "bytes")
           => last_read.result.bytes =
                SubSeq(data, last_read.offset + 1,
                       Min(last_read.offset + last_read.length, Len(data)))

\* C10 witness: a read_fields call at offset 1 that decoded its fields was
\* kept, and the same call made again later has read up to the end of the file.
C10_Witness ==
    /\ noted_read.op = "read_fields"
    /\ noted_read.result.kind = "fields"
    /\ noted_read.offset = 1
    /\ SameCall(last_read, noted_read)
    /\ cursor = Len(data)
    /\ ~closed

\* ------------------------------------------------ the scanner, file by file
\* The spellings of a font file's extension among those the model draws from.
FontExts == {".otf", ".ttf", ".OTF", ".TTF"}

\* The files in and under the directories of the platform's list.
Scanned ==
    {i \in 1..Len(tree) :
        \E k \in 1..Len(_font_directories(platform, home).dirs) :
            tree[i].dir = _font_directories(platform, home).dirs[k]}

\* Caller t's latest scan is over: it raised, or its dict was stored.
ScanEnded(t) ==
    /\ pc[t] \in {"idle", "lookup"}
    /\ \/ res[t].exc \in {"ParseError", "IOError"}
       \/ (~_font_files.isNone /\ scan_count = 1)

\* What holds of the scanner whatever the files are: it opens only files
\* with a font extension, every pair it yields is (descriptor, path) of a
\* file it opened, and a scan that ends without an error opened every font
\* file and yielded the pair of each.
ScannerFilter ==
    \A t \in callers :
        /\ \A i \in opened[t] : tree[i].ext \in FontExts
        /\ \A k \in 1..Len(yields[t]) :
              \E i \in opened[t] : yields[t][k] = <<tree[i].desc, Path(i)>>
        /\ (pc[t] = "lookup" /\ res[t] = NoResult /\ scan_count = 1) =>
              \A i \in Scanned : tree[i].ext \in FontExts =>
                  /\ i \in opened[t]
                  /\ \E k \in 1..Len(yields[t]) : yields[t][k] = <<tree[i].desc, Path(i)>>

\* C11: the scanner opens every file in and under the root whose extension
\* is .otf or .ttf in any case, yields the pair ((family_name, is_bold,
\* is_italic), path) of every such file that parses, and opens no other file.
C11_EveryFontFileOpened ==
    \A t \in callers :
        /\ \A i \in opened[t] : tree[i].ext \in FontExts
        /\ ScanEnded(t) =>
              \A i \in Scanned : tree[i].ext \in FontExts =>
                  /\ i \in opened[t]
                  /\ tree[i].status = "ok" =>
                        \E k \in 1..Len(yields[t]) :
                            yields[t][k] = <<tree[i].desc, Path(i)>>

\* The pairs the first n candidates in scan order yield.
ExpectedYields(n) ==
    [k \in 1..n |-> <<tree[ScanOrder[k]].desc, Path(ScanOrder[k])>>]

\* How much of the walk caller t has left: the candidates not done yet, the
\* directories not entered yet, and the steps left on the current file.
Rank(t) ==
    3 * (Len(ScanOrderFrom(dirs[t], d_idx[t])) - f_idx[t])
    + (Len(dirs[t]) - d_idx[t])
    + (CASE pc[t] = "parsing" -> 1 [] pc[t] = "yielded" -> 0 [] OTHER -> 2)

ScanStep(t) ==
    \/ OpenFont(t) \/ Parse(t) \/ Resume(t) \/ NextDirectory(t) \/ Built(t)

\* C16: a scan of a finite tree ends: every step of the walk lowers a
\* natural-number rank and a walk that is not over can always take a step,
\* so it yields finitely many pairs; a scan made again starts from the first
\* file and yields the same pairs in the same order.
C16_ScanTerminatesAndRestarts ==
    /\ [](\A t \in InScan :
            /\ Rank(t) >= 0
            /\ ENABLED ScanStep(t)
            /\ Len(yields[t]) <= Len(ScanOrder))
    /\ [](\A t \in callers : yields[t] = ExpectedYields(Len(yields[t])))
    /\ [][\A t \in callers :
            (t \in InScan /\ pc'[t] \in {"scan", "parsing", "yielded"}
             /\ <<pc[t], d_idx[t], f_idx[t]>> # <<pc'[t], d_idx'[t], f_idx'[t]>>)
                => Rank(t)' < Rank(t)]_vars

\* C16 witness: after a first scan, a second scan of the same tree has
\* yielded the same first pair again and has ended.
C16_Witness ==
    /\ scan_count = 2
    /\ pc[1] = "idle"
    /\ res[1].exc = "ParseError"
    /\ Len(yields[1]) = 1

\* The dict a sequence of yielded pairs leaves behind.
RECURSIVE Fold(_)
Fold(pairs) ==
    IF pairs = <<>> THEN EmptyDict
    ELSE SetItem(Fold(SubSeq(pairs, 1, Len(pairs) - 1)),
                 pairs[Len(pairs)][1], pairs[Len(pairs)][2])

BuildErrors == {"OSError", "NotImplementedError", "IOError", "ParseError"}

\* C19: a build that raises stores nothing: the registry stays unbuilt and
\* empty, so the next find call builds again, from the first directory and
\* with a fresh dict that holds the pairs of the new scan only.
C19_FailedBuildStoresNothing ==
    /\ _font_files.isNone => _font_files.map = EmptyDict
    /\ \A t \in callers :
          /\ res[t].exc \in BuildErrors => NeedsBuild(_font_files)
          /\ t \in InScan => fonts[t] = Fold(yields[t])
          /\ (pc[t] = "scan" /\ d_idx[t] = 1 /\ f_idx[t] = 0) =>
                (fonts[t] = EmptyDict /\ opened[t] = {})

\* C19 witness: a build failed, and the next find call's build has walked
\* from the first file again while the registry is still unbuilt.
C19_Witness ==
    /\ scan_count = 2
    /\ pc[1] = "yielded"
    /\ Len(yields[1]) = 1
    /\ _font_files.isNone

\* C20: at every point of a build its caller holds at most one open font
\* file: the file whose pair is being read or has just been yielded; it is
\* closed before the next file is opened and before the next directory.
C20_OneHandleAtATime ==
    \A t \in callers :
        LET mine == {h \in open_files : h[1] = t} IN
        /\ Cardinality(mine) <= 1
        /\ pc[t] \in {"parsing", "yielded"} => mine = {<<t, Path(Todo(t)[f_idx[t] + 1])>>}
        /\ pc[t] \notin {"parsing", "yielded"} => mine = {}

\* C20 witness: the second file's pair is with the consumer; one file is open.
C20_Witness ==
    /\ pc[1] = "yielded"
    /\ Len(yields[1]) = 2
    /\ Cardinality(open_files) = 1

\* ------------------------------------------------------------ font files
MaxTables == 2
MaxNames == 2
MaxProps == 2

\* Table tags as the four bytes struct's '4s' gives: 'name', 'head', 'OS/2'
\* and a tag no decoder exists for, 'glyf'.
NameTag == <<110, 97, 109, 101>>
HeadTag == <<104, 101, 97, 100>>
OS2Tag == <<79, 83, 47, 50>>
GlyfTag == <<103, 108, 121, 102>>
RecognizedTags == {NameTag, HeadTag, OS2Tag}

\* Big-endian unsigned 16- and 32-bit integers as bytes.
U16(n) == <<n \div 256, n % 256>>
U32(n) == <<0, 0>> \o U16(n)

RECURSIVE Concat(_)
Concat(seqs) == IF seqs = <<>> THEN <<>> ELSE Head(seqs) \o Concat(Tail(seqs))

Filler(n) == [i \in 1..n |-> 170]

\* The sizes and field positions of the sfnt layout.
HeaderSize == 12
RecordSize == 16
MacStyleAt == 44
FsSelectionAt == 62
NameHeaderSize == 6
NameRecordSize == 12

\* The offset table: sfnt_version, tbl_count, search_range, entry_selector,
\* range_shift.
Header(count) == <<0, 1, 0, 0>> \o U16(count) \o U16(32) \o U16(1) \o U16(0)

\* One table record: tag, checksum, offset, length.
Checksum == <<0, 173, 190, 239>>
Record(tag, off, len_) == tag \o Checksum \o U32(off) \o U32(len_)

\* A 'head' table with the given macStyle and an 'OS/2' table with the
\* given fsSelection.
HeadBody(macStyle) == Filler(MacStyleAt) \o U16(macStyle) \o Filler(8)
OS2Body(fsSelection) == Filler(FsSelectionAt) \o U16(fsSelection) \o Filler(14)
GlyfBody == Filler(4)

\* Name records: Windows / Unicode BMP, Macintosh / Roman and Unicode
\* platform records of the family name (name_id 1), and a Windows record of
\* the subfamily name (name_id 2). Their strings are "A", "B", "C" and "R".
WinFamily == [platform_id |-> 3, encoding_id |-> 1, language_id |-> 1033,
              name_id |-> 1, string |-> <<0, 65>>]
MacFamily == [platform_id |-> 1, encoding_id |-> 0, language_id |-> 0,
              name_id |-> 1, string |-> <<66>>]
UniFamily == [platform_id |-> 0, encoding_id |-> 3, language_id |-> 0,
              name_id |-> 1, string |-> <<67>>]
WinSubfamily == [platform_id |-> 3, encoding_id |-> 1, language_id |-> 1033,
                 name_id |-> 2, string |-> <<0, 82>>]
NameRecordKinds == {WinFamily, MacFamily, UniFamily, WinSubfamily}

RECURSIVE SumLen(_, _)
SumLen(seqs, n) == IF n = 0 THEN 0 ELSE Len(seqs[n]) + SumLen(seqs, n - 1)

\* A format 0 'name' table: header (format, count, string offset), the name
\* records (platform, encoding, language, name id, length, offset), then
\* the strings.
NameBody(recs) ==
    LET n == Len(recs)
        strings == [i \in 1..n |-> recs[i].string]
        entry(i) == U16(recs[i].platform_id) \o U16(recs[i].encoding_id)
                    \o U16(recs[i].language_id) \o U16(recs[i].name_id)
                    \o U16(Len(recs[i].string)) \o U16(SumLen(strings, i - 1))
    IN U16(0) \o U16(n) \o U16(NameHeaderSize + NameRecordSize * n)
       \o Concat([i \in 1..n |-> entry(i)]) \o Concat(strings)

\* The tables a font file of the model is made of.
TableKinds ==
    { [tag |-> HeadTag, body |-> HeadBody(1)],
      [tag |-> HeadTag, body |-> HeadBody(2)],
      [tag |-> OS2Tag, body |-> OS2Body(1)],
      [tag |-> OS2Tag, body |-> OS2Body(32)],
      [tag |-> GlyfTag, body |-> GlyfBody],
      [tag |-> NameTag, body |-> NameBody(<<WinFamily>>)] }

\* A font file: the offset table, one record per table, then the tables.
FontFile(tables) ==
    LET n == Len(tables)
        bodies == [i \in 1..n |-> tables[i].body]
        start(i) == HeaderSize + RecordSize * n + SumLen(bodies, i - 1)
    IN Header(n)
       \o Concat([i \in 1..n |-> Record(tables[i].tag, start(i), Len(bodies[i]))])
       \o Concat(bodies)

\* Directories of at most n tables, no tag twice.
Directories(n) ==
    {ts \in UNION {[1..k -> TableKinds] : k \in 0..n} :
        \A i, j \in 1..Len(ts) : ts[i].tag = ts[j].tag => i = j}

\* The files the model draws from: whole files with every directory, files
\* whose one table is a 'name' table with every list of name records, and
\* files cut short inside the offset table or inside the table directory.
WholeFiles == {FontFile(ts) : ts \in Directories(MaxTables)}
NameFiles ==
    {FontFile(<<[tag |-> NameTag, body |-> NameBody(rs)]>>) :
        rs \in UNION {[1..k -> NameRecordKinds] : k \in 0..MaxNames}}
CutFiles ==
    {SubSeq(FontFile(ts), 1, HeaderSize - 1) : ts \in Directories(1)}
    \cup {SubSeq(FontFile(ts), 1, HeaderSize + RecordSize * Len(ts) - 1) :
            ts \in Directories(MaxTables) \ {<<>>}}
FontFileBytes == WholeFiles \cup NameFiles \cup CutFiles

\* ------------------------------------------------------------- _Font
\* self._stream.read and self._stream.read_fields on the font's stream; a
\* closed file raises ValueError.
stream_read(offset, length) ==
    IF closed THEN Error_("ValueError") ELSE read(data, cursor, offset, length)

stream_read_fields(tmpl, offset) ==
    IF closed THEN Error_("ValueError") ELSE read_fields(data, cursor, tmpl, offset)

\* A stream read as the log keeps it.
Access(offset, length) == [offset |-> offset, length |-> length]

\* The file position after the reads of an operation.
AfterReads(log) ==
    IF closed \/ log = <<>> THEN cursor
    ELSE LET a == log[Len(log)] IN
         Seek(cursor, a.offset) + Len(FileRead(data, Seek(cursor, a.offset), a.length))

\* '>4sHHHH' and '>4sLLL'.
HeaderTmpl == <<"4s", "H", "H", "H", "H">>
RecordTmpl == <<"4s", "L", "L", "L">>

\* struct.unpack_from(template, bufr, offset).
unpack_from_at(tmpl, bufr, offset) ==
    IF Len(bufr) - offset < calcsize(tmpl) THEN Error_("struct.error")
    ELSE Fields_(Unpack(tmpl, SubSeq(bufr, offset + 1, Len(bufr))))

\* _Font._fields, a lazyproperty: read on the first access, kept once read;
\* an access that raises keeps nothing.
FieldsNow ==
    IF _fields.kind = "fields" THEN _fields ELSE stream_read_fields(HeaderTmpl, 0)

FieldsReads ==
    IF _fields.kind = "fields" THEN <<>> ELSE <<Access(0, calcsize(HeaderTmpl))>>

FieldsKept(f) == IF f.kind = "fields" THEN f ELSE _fields

\* _Font._table_count: self._fields[1].
_table_count(f) == f.fields[2].n

\* A faulty variant of TableRecord: the checksum is not skipped.
RecordWithChecksum(fs) == [tag |-> fs[1].s, offset |-> fs[2].n, length |-> fs[3].n]

\* What _iter_table_records yields for one record: tag, off, len_.
TableRecord(fs) == [tag |-> fs[1].s, offset |-> fs[3].n, length |-> fs[4].n]

\* How many passes of the loop of _iter_table_records yield a record: the
\* passes before the first one whose unpack_from raises.
Yielded(bufr, count) ==
    Cardinality({i \in 0..(count - 1) :
        \A j \in 0..i : unpack_from_at(RecordTmpl, bufr, j * RecordSize).kind = "fields"})

\* _Font._iter_table_records run to its end, given the value of _fields:
\* the records yielded, the exception raised, the stream reads made.
_iter_table_records(f) ==
    IF f.kind = "raise"
    THEN [records |-> <<>>, exc |-> f.exc, reads |-> FieldsReads]
    ELSE LET count == _table_count(f)
             log == FieldsReads \o <<Access(HeaderSize, count * RecordSize)>>
             bufr == stream_read(HeaderSize, count * RecordSize) IN
         IF bufr.kind = "raise"
         THEN [records |-> <<>>, exc |-> bufr.exc, reads |-> log]
         ELSE [records |-> [i \in 1..Yielded(bufr.bytes, count) |->
                    TableRecord(unpack_from_at(RecordTmpl, bufr.bytes,
                                               (i - 1) * RecordSize).fields)],
               exc |-> IF Yielded(bufr.bytes, count) < count
                       THEN "struct.error" ELSE "none",
               reads |-> log]

\* A faulty variant of _TableFactory: a tag outside the dispatch is an error.
StrictFactory(tag, off, len_) ==
    [tag |-> tag, offset |-> off, length |-> len_, decoder |-> tag \in RecognizedTags,
     exc |-> IF tag \in RecognizedTags THEN "none" ELSE "KeyError"]

\* _TableFactory: the decoder of a recognized tag; an unrecognized tag has
\* no decoder (None).
_TableFactory(tag, off, len_) ==
    [tag |-> tag, offset |-> off, length |-> len_, decoder |-> tag \in RecognizedTags,
     exc |-> "none"]

\* The factory's result for record i.
TableOf(records, i) ==
    _TableFactory(records[i].tag, records[i].offset, records[i].length)

\* dict(...) over the records in order, a later record of a tag replacing
\* an earlier one: the mapping, the tags a decoder was constructed for, and
\* the exception of the first factory call that raises.
DictOf(records) ==
    LET n == Len(records)
        failed == {i \in 1..n : TableOf(records, i).exc # "none"}
        done == IF failed = {} THEN n
                ELSE (CHOOSE i \in failed : \A j \in failed : i <= j) - 1
        last(tag) == CHOOSE i \in 1..done :
                        /\ records[i].tag = tag
                        /\ \A j \in 1..done : records[j].tag = tag => j <= i
    IN [map |-> [tag \in {records[i].tag : i \in 1..done} |-> TableOf(records, last(tag))],
        tags |-> [i \in 1..done |-> records[i].tag],
        exc |-> IF failed = {} THEN "none" ELSE TableOf(records, done + 1).exc]

IsRecognized(tag) == tag \in RecognizedTags

\* _Font._tables, a lazyproperty, given what _iter_table_records gives:
\* built on the first access that succeeds. The generator expression takes
\* one record, calls the factory, then takes the next, so the records
\* before a failing one have had their decoders constructed.
TablesNow(it) ==
    IF ~_tables.isNone
    THEN [map |-> _tables.map, built |-> <<>>, exc |-> "none", reads |-> <<>>]
    ELSE [map |-> DictOf(it.records).map,
          built |-> SelectSeq(DictOf(it.records).tags, IsRecognized),
          exc |-> IF DictOf(it.records).exc # "none" THEN DictOf(it.records).exc
                  ELSE it.exc,
          reads |-> it.reads]

TablesKept(t) ==
    IF t.exc = "none" THEN [isNone |-> FALSE, map |-> t.map] ELSE _tables

\* Bit k of n.
Bit(n, k) == (n \div (2 ^ k)) % 2 = 1

\* UTF-16BE and Mac Roman decoding to character codes; Mac Roman agrees
\* with ASCII below 128, and the model's strings stay below it.
Utf16BE(bytes) == [i \in 1..(Len(bytes) \div 2) |-> 256 * bytes[2 * i - 1] + bytes[2 * i]]
MacRoman(bytes) == [i \in 1..Len(bytes) |-> IF bytes[i] < 128 THEN bytes[i] ELSE 65533]

SmallestOf(S) == CHOOSE i \in S : \A j \in S : i <= j

\* Name record i (from 0) of a 'name' table, as read from the stream.
NameRecordAt(table, i) == table.offset + NameHeaderSize + NameRecordSize * i
NameRecordFields(table, i) ==
    stream_read_fields(<<"H", "H", "H", "H", "H", "H">>, NameRecordAt(table, i))

\* The name records of a 'name' table, read in order until a read fails.
NameRecords(table, count) ==
    LET got == Cardinality({i \in 0..(count - 1) :
                   \A j \in 0..i : NameRecordFields(table, j).kind = "fields"})
    IN [records |-> [i \in 1..got |->
            LET fs == NameRecordFields(table, i - 1).fields IN
            [platform_id |-> fs[1].n, encoding_id |-> fs[2].n, name_id |-> fs[4].n,
             length |-> fs[5].n, offset |-> fs[6].n]],
        exc |-> IF got < count THEN NameRecordFields(table, got).exc ELSE "none",
        reads |-> [i \in 1..(IF got < count THEN got + 1 ELSE got) |->
                      Access(NameRecordAt(table, i - 1), NameRecordSize)]]

\* A faulty variant of PickName: the first family-name record, whatever its
\* platform.
PickFirst(records) ==
    SmallestOf({i \in 1..Len(records) : records[i].name_id = 1})

\* The selection policy among the name_id 1 records: Windows / Unicode BMP,
\* else Macintosh / Roman, else the first.
PickName(records) ==
    LET family == {i \in 1..Len(records) : records[i].name_id = 1}
        win == {i \in family : records[i].platform_id = 3 /\ records[i].encoding_id = 1}
        mac == {i \in family : records[i].platform_id = 1 /\ records[i].encoding_id = 0}
    IN IF win # {} THEN SmallestOf(win)
       ELSE IF mac # {} THEN SmallestOf(mac)
       ELSE SmallestOf(family)

\* The string of name record r, decoded by its platform and encoding.
NameString(table, stringOffset, r) ==
    LET at == table.offset + stringOffset + r.offset
        b == stream_read(at, r.length) IN
    [exc |-> b.exc,
     text |-> IF r.platform_id = 3 /\ r.encoding_id = 1
              THEN Utf16BE(b.bytes) ELSE MacRoman(b.bytes),
     reads |-> <<Access(at, r.length)>>]

\* _NameTable.family_name: header, name records, then the string of the
\* record picked.
NameTable_family_name(table) ==
    LET h == stream_read_fields(<<"H", "H", "H">>, table.offset)
        hlog == <<Access(table.offset, NameHeaderSize)>> IN
    IF h.kind = "raise" THEN [exc |-> h.exc, text |-> <<>>, reads |-> hlog]
    ELSE CHOOSE result \in
           { IF rs.exc # "none"
             THEN [exc |-> rs.exc, text |-> <<>>, reads |-> hlog \o rs.reads]
             ELSE IF \A i \in 1..Len(rs.records) : rs.records[i].name_id # 1
             THEN [exc |-> "NameNotFoundError", text |-> <<>>, reads |-> hlog \o rs.reads]
             ELSE LET s == NameString(table, h.fields[3].n, rs.records[PickName(rs.records)])
                  IN [exc |-> s.exc, text |-> s.text, reads |-> hlog \o rs.reads \o s.reads]
             : rs \in {NameRecords(table, h.fields[2].n)} } : TRUE

\* A faulty variant of _Font_family_name: a font with no 'name' table has
\* the empty family name.
FamilyNameOrEmpty(t) ==
    IF t.exc # "none" THEN [exc |-> t.exc, text |-> <<>>, reads |-> t.reads]
    ELSE IF NameTag \notin DOMAIN t.map
    THEN [exc |-> "none", text |-> <<>>, reads |-> t.reads]
    ELSE LET n == NameTable_family_name(t.map[NameTag]) IN
         [exc |-> n.exc, text |-> n.text, reads |-> t.reads \o n.reads]

\* _Font.family_name, given the value of _tables:
\* self._tables['name'].family_name; the subscript raises KeyError when the
\* mapping has no 'name'.
_Font_family_name(t) ==
    IF t.exc # "none" THEN [exc |-> t.exc, text |-> <<>>, reads |-> t.reads]
    ELSE IF NameTag \notin DOMAIN t.map
    THEN [exc |-> "KeyError", text |-> <<>>, reads |-> t.reads]
    ELSE LET n == NameTable_family_name(t.map[NameTag]) IN
         [exc |-> n.exc, text |-> n.text, reads |-> t.reads \o n.reads]

\* A faulty variant of StyleFlag: the head and OS/2 bit layouts taken to be
\* the same.
StyleFlagSameBits(t, macBit, fsBit) ==
    LET head == HeadTag \in DOMAIN t.map
        at == IF head THEN t.map[HeadTag].offset + MacStyleAt
              ELSE IF OS2Tag \in DOMAIN t.map THEN t.map[OS2Tag].offset + FsSelectionAt
              ELSE 0
        f == stream_read_fields(<<"H">>, at) IN
    IF t.exc # "none" THEN [exc |-> t.exc, flag |-> FALSE, reads |-> t.reads]
    ELSE IF ~head /\ OS2Tag \notin DOMAIN t.map
    THEN [exc |-> "KeyError", flag |-> FALSE, reads |-> t.reads]
    ELSE [exc |-> f.exc,
          flag |-> f.kind = "fields" /\ Bit(f.fields[1].n, macBit),
          reads |-> t.reads \o <<Access(at, 2)>>]

\* _Font.is_bold and _Font.is_italic, given the value of _tables: the bit
\* of head.macStyle when the font has a 'head' table, else the bit of
\* OS/2.fsSelection, else the mapping's KeyError.
StyleFlag(t, macBit, fsBit) ==
    LET head == HeadTag \in DOMAIN t.map
        at == IF head THEN t.map[HeadTag].offset + MacStyleAt
              ELSE IF OS2Tag \in DOMAIN t.map THEN t.map[OS2Tag].offset + FsSelectionAt
              ELSE 0
        f == stream_read_fields(<<"H">>, at) IN
    IF t.exc # "none" THEN [exc |-> t.exc, flag |-> FALSE, reads |-> t.reads]
    ELSE IF ~head /\ OS2Tag \notin DOMAIN t.map
    THEN [exc |-> "KeyError", flag |-> FALSE, reads |-> t.reads]
    ELSE [exc |-> f.exc,
          flag |-> f.kind = "fields" /\ Bit(f.fields[1].n, IF head THEN macBit ELSE fsBit),
          reads |-> t.reads \o <<Access(at, 2)>>]

\* The tags a style flag looks up in the mapping.
StyleTags(t) ==
    IF t.exc # "none" THEN {}
    ELSE IF HeadTag \in DOMAIN t.map THEN {HeadTag} ELSE {HeadTag, OS2Tag}

\* ------------------------------------------------------- _Font actions
\* _Font.open on one of the model's files; the registry takes no part.
FontInit ==
    /\ data \in FontFileBytes
    /\ cursor = 0
    /\ closed = FALSE
    /\ last_read = NoRead
    /\ noted_read = NoRead
    /\ FontIdle
    /\ platform = "darwin"
    /\ home = NoHome
    /\ tree = <<>>
    /\ _font_files = [isNone |-> TRUE, map |-> EmptyDict]
    /\ callers = {}
    /\ pc = [t \in Threads |-> "idle"]
    /\ args = [t \in Threads |-> ArialRegular]
    /\ dirs = [t \in Threads |-> <<>>]
    /\ d_idx = [t \in Threads |-> 0]
    /\ f_idx = [t \in Threads |-> 0]
    /\ fonts = [t \in Threads |-> EmptyDict]
    /\ res = [t \in Threads |-> NoResult]
    /\ open_files = {}
    /\ scan_count = 0
    /\ calls = 0
    /\ returned = {}
    /\ opened = [t \in Threads |-> {}]
    /\ yields = [t \in Threads |-> <<>>]

\* What every operation on the font does to the state: the header fields it
\* read are kept, the file position follows its last read.
Served(f, outcome, log) ==
    /\ props_read < MaxProps
    /\ props_read' = props_read + 1
    /\ last_op' = outcome
    /\ reads' = log
    /\ cursor' = AfterReads(log)
    /\ _fields' = FieldsKept(f)
    /\ UNCHANGED <<data, closed, last_read, noted_read, regVars>>

\* A property that goes through self._tables: the mapping is kept once
\* built, the decoders constructed and the tags looked up are recorded.
ThroughTables(t, tags) ==
    /\ _tables' = TablesKept(t)
    /\ constructed' = constructed \o t.built
    /\ requested' = requested \cup tags

\* f.family_name, line 133.
ReadFamilyName ==
    \E f \in {FieldsNow} : \E it \in {_iter_table_records(f)} :
    \E t \in {TablesNow(it)} : \E r \in {_Font_family_name(t)} :
        /\ Served(f, Outcome("family_name", r.exc, r.text, FALSE, <<>>), r.reads)
        /\ ThroughTables(t, IF t.exc = "none" THEN {NameTag} ELSE {})

\* f.is_bold: bit 0 of macStyle, bit 5 of fsSelection.
ReadIsBold ==
    \E f \in {FieldsNow} : \E it \in {_iter_table_records(f)} :
    \E t \in {TablesNow(it)} : \E r \in {StyleFlag(t, 0, 5)} :
        /\ Served(f, Outcome("is_bold", r.exc, <<>>, r.flag, <<>>), r.reads)
        /\ ThroughTables(t, StyleTags(t))

\* f.is_italic: bit 1 of macStyle, bit 0 of fsSelection.
ReadIsItalic ==
    \E f \in {FieldsNow} : \E it \in {_iter_table_records(f)} :
    \E t \in {TablesNow(it)} : \E r \in {StyleFlag(t, 1, 0)} :
        /\ Served(f, Outcome("is_italic", r.exc, <<>>, r.flag, <<>>), r.reads)
        /\ ThroughTables(t, StyleTags(t))

\* list(f._iter_table_records()), lines 149-155.
IterTableRecords ==
    \E f \in {FieldsNow} : \E it \in {_iter_table_records(f)} :
        /\ Served(f, Outcome("_iter_table_records", it.exc, <<>>, FALSE, it.records),
                  it.reads)
        /\ UNCHANGED <<_tables, constructed, requested>>

\* _Font.__exit__, line 116: the stream is closed.
FontExit ==
    /\ ~closed
    /\ closed' = TRUE
    /\ UNCHANGED <<data, cursor, last_read, noted_read, regVars, fontVars>>

FontNext ==
    \/ ReadFamilyName
    \/ ReadIsBold
    \/ ReadIsItalic
    \/ IterTableRecords
    \/ FontExit

SpecFont == FontInit /\ [][FontNext]_vars

\* ------------------------------------------------- the file as it is on disk
\* Big-endian integers of the file at a byte offset (from 0).
U16At(at) == 256 * data[at + 1] + data[at + 2]
U32At(at) == 16777216 * data[at + 1] + 65536 * data[at + 2] + 256 * data[at + 3] + data[at + 4]

\* The second field of the offset table, and whether the file holds the
\* whole table directory.
CountOnDisk == U16At(4)
HasDirectory ==
    /\ Len(data) >= HeaderSize
    /\ Len(data) >= HeaderSize + RecordSize * CountOnDisk

\* Record i (from 0) of the table directory: bytes [12+16i, 12+16i+16).
TagOnDisk(i) == SubSeq(data, HeaderSize + RecordSize * i + 1, HeaderSize + RecordSize * i + 4)
OffsetOnDisk(i) == U32At(HeaderSize + RecordSize * i + 8)
LengthOnDisk(i) == U32At(HeaderSize + RecordSize * i + 12)
RecordOnDisk(i) == [tag |-> TagOnDisk(i), offset |-> OffsetOnDisk(i), length |-> LengthOnDisk(i)]

HasTable(tag) == HasDirectory /\ \E i \in 0..(CountOnDisk - 1) : TagOnDisk(i) = tag
TableOnDisk(tag) == RecordOnDisk(CHOOSE i \in 0..(CountOnDisk - 1) : TagOnDisk(i) = tag)

\* The latest operation was this property, read while the file was open
\* (the file is still open), on a file that holds its whole directory.
JustRead(ops) ==
    /\ last_op.op \in ops
    /\ ~closed
    /\ HasDirectory

MacStyleOnDisk == U16At(TableOnDisk(HeadTag).offset + MacStyleAt)
FsSelectionOnDisk == U16At(TableOnDisk(OS2Tag).offset + FsSelectionAt)

NameCountOnDisk == U16At(TableOnDisk(NameTag).offset + 2)
StringsOnDisk == TableOnDisk(NameTag).offset + U16At(TableOnDisk(NameTag).offset + 4)
NameOnDisk(k) ==
    LET at == TableOnDisk(NameTag).offset + NameHeaderSize + NameRecordSize * k
        from == StringsOnDisk + U16At(at + 10)
        bytes == SubSeq(data, from + 1, from + U16At(at + 8))
        win == U16At(at) = 3 /\ U16At(at + 2) = 1
    IN [win |-> win,
        mac |-> U16At(at) = 1 /\ U16At(at + 2) = 0,
        family |-> U16At(at + 6) = 1,
        text |-> IF win THEN [i \in 1..(Len(bytes) \div 2) |-> 256 * bytes[2 * i - 1] + bytes[2 * i]]
                 ELSE bytes]

C17_TableDirectoryDecoded ==
    (last_op.op = "_iter_table_records" /\ last_op.exc # "ValueError") =>
        IF Len(data) < HeaderSize
        THEN /\ last_op.exc = "struct.error"
             /\ last_op.records = <<>>
             /\ reads = <<Access(0, HeaderSize)>>
        ELSE /\ reads \in { <<Access(0, HeaderSize), Access(HeaderSize, RecordSize * CountOnDisk)>>,
                            <<Access(HeaderSize, RecordSize * CountOnDisk)>> }
             /\ (Len(reads) = 1) => (props_read > 1)
             /\ \A i \in 1..Len(last_op.records) : last_op.records[i] = RecordOnDisk(i - 1)
             /\ IF HasDirectory
                THEN last_op.exc = "none" /\ Len(last_op.records) = CountOnDisk
                ELSE /\ last_op.exc = "struct.error"
                     /\ Len(last_op.records) = (Len(data) - HeaderSize) \div RecordSize

\* C17 witness: two records were yielded, the second from bytes [28, 44).
C17_Witness ==
    /\ last_op.op = "_iter_table_records"
    /\ last_op.exc = "none"
    /\ Len(last_op.records) = 2
    /\ last_op.records[2].tag = NameTag
    /\ last_op.records[2].offset = U32At(36)
    /\ reads = <<Access(0, 12), Access(12, 32)>>

\* C18: within one open font file a decoder is constructed at most once per
\* tag however many properties are read, and none is constructed for a tag
\* before that tag is looked up in the mapping.
C18_DecodersLazyAndOnce ==
    /\ \A i, j \in 1..Len(constructed) : constructed[i] = constructed[j] => i = j
    /\ \A i \in 1..Len(constructed) : constructed[i] \in requested

====
